---- MODULE Spec2Model ----
(***************************************************************************)
(* Road-damage synthesis and hazard rating (mainproject.py,                *)
(* hdf_generator.py, New.py) as a state machine.                           *)
(*                                                                         *)
(* Numbers are fixed point:                                                *)
(*   lengths of the road and the resolution    millimetres                 *)
(*   radii                                     1/100 pixel                 *)
(*   cos, sin, rotated offsets                 1/10                        *)
(*   ellipse_dist                              1/100                       *)
(*   base_mask                                 1/100                       *)
(*   noise                                     1/10                        *)
(*   max_depth                                 1/1000 cm                   *)
(*   mask and road_matrix values               1/1000000 cm                *)
(* The float32 rounding of road_matrix is monotone and is not modelled.    *)
(***************************************************************************)
EXTENDS Integers, Sequences, FiniteSets

\* ------------------------------------------------------------------ bounds
\* total_potholes is capped at MaxPotholes (the script draws up to 30 or 40).
MaxPotholes == 2
\* np.random.seed receives a value in 1..MaxSeed (the script: 1..100000).
MaxSeed == 5

\* ------------------------------------------------------- fixed-point units
\* radii: 1/RadUnit pixel; mask values: 1/MaskUnit of a max_depth unit.
RadUnit == 100
MaskUnit == 1000

\* ----------------------------------------------------------------- helpers
Min(a, b) == IF a <= b THEN a ELSE b
Max(a, b) == IF a >= b THEN a ELSE b

\* Python's int() on the float n / d (d # 0): truncation toward zero.
PyInt(n, d) ==
    LET an == IF n >= 0 THEN n ELSE -n
        ad == IF d >= 0 THEN d ELSE -d
    IN  IF (n >= 0) = (d >= 0) THEN an \div ad ELSE -(an \div ad)

\* Two executions of the script, side by side.
Runs == {1, 2}

\* ------------------------------------------------- np.random (global state)
\* The generator is a counter whose outputs are scrambled: a draw reads the
\* output of the current counter and advances it by one.
NpPeriod == 1009
NpRange == 251
NpSeedStride == 37
NpSeedState(seed) == (seed * NpSeedStride) % NpPeriod
NpAdvance(s, n) == (s + n) % NpPeriod
NpOut(s) == (s * s * s + 11 * s) % NpRange

\* random_sample() in [0, 1), in quarters.
UQuant == 4
NpSample(s) == NpOut(s) % UQuant
\* np.random.uniform(lo, hi) = lo + (hi - lo) * random_sample()
NpUniform(s, lo, hi) == lo + ((hi - lo) * NpSample(s)) \div UQuant
\* np.random.rand() in hundredths
NpRand(s) == NpOut(s) % 100
\* np.random.randint(low, high), high exclusive; the caller checks low < high
NpRandint(s, low, high) == low + (NpOut(s) % (high - low))
\* one value of np.random.normal(loc=1.0, scale=0.2), in tenths
NoiseTable == <<10, 8, 12, 9, 11, 6, 14, 10, -1, 21>>
NpNormal(s) == NoiseTable[(NpOut(s) % Len(NoiseTable)) + 1]

\* ------------------------------------------------ create_pothole_mask_rough
\* np.cos and np.sin of np.deg2rad(rotation_deg), in tenths, for the
\* rotations the model draws (multiples of 45 degrees).
Cos10(deg) == CASE deg = 0 -> 10 [] deg = 45 -> 7 [] deg = 90 -> 0
                [] deg = 135 -> -7 [] OTHER -> -10
Sin10(deg) == CASE deg = 0 -> 0 [] deg = 45 -> 7 [] deg = 90 -> 10
                [] deg = 135 -> 7 [] OTHER -> 0

\* np.exp(-ellipse_dist / 1.5) in hundredths, tabulated in steps of 0.25.
ExpTable == <<100, 85, 72, 61, 51, 43, 37, 31, 26, 22, 19, 16, 14>>
ExpNeg(dq) == ExpTable[Min(dq \div 25, Len(ExpTable) - 1) + 1]

\* np.clip(x, a_min, a_max) = minimum(maximum(x, a_min), a_max)
NoClip(x, a_min, a_max) == x
Clip(x, a_min, a_max) == Min(Max(x, a_min), a_max)

\* The pixels of an array of the given shape.
Pixels(rows, cols) == (0 .. rows - 1) \X (0 .. cols - 1)

\* The floats inf and nan, which numpy's division by a zero radius yields
\* (with a RuntimeWarning, not an exception); both lie outside the range of
\* the finite values of the model.
Inf == 2000000000
NaN == -2000000000
\* (x / radius) ** 2 for n = x * x and d = radius * radius, both >= 0.
SquaredRatio(n, d) ==
    IF d # 0 THEN n \div d ELSE IF n = 0 THEN NaN ELSE Inf
\* The float sum of two such terms.
FloatAdd(x, y) ==
    IF x = NaN \/ y = NaN THEN NaN
    ELSE IF x = Inf \/ y = Inf THEN Inf
    ELSE x + y

\* ellipse_dist of one pixel (line 24), in hundredths.
EllipseDist(a, b, center, radii, rotation_deg) ==
    LET r == a - center[1]
        c == b - center[2]
        r_rot == r * Cos10(rotation_deg) - c * Sin10(rotation_deg)
        c_rot == r * Sin10(rotation_deg) + c * Cos10(rotation_deg)
    IN  FloatAdd(SquaredRatio(c_rot * c_rot * 10000, radii[2] * radii[2]),
                 SquaredRatio(r_rot * r_rot * 10000, radii[1] * radii[1]))

\* The value of one pixel of final_mask; noise is that pixel's normal draw.
\* A nan ellipse_dist stays nan through np.exp, the products and np.clip,
\* and nan > 3.0 is false, so the cut-off does not zero it.
MaskValue(dq, noise, max_depth) ==
    LET base_mask == ExpNeg(dq)
        rough_mask == IF dq > 300 THEN 0 ELSE base_mask * noise
    IN  IF dq = NaN THEN NaN
        ELSE Clip(rough_mask * max_depth, 0, max_depth * MaskUnit)

\* create_pothole_mask_rough(shape, center, radii, max_depth, rotation_deg)
\* with the generator at state s when np.random.normal is called: pixel
\* (a, b) takes draw number a * cols + b of the size=shape array.
create_pothole_mask_rough(shape, center, radii, max_depth, rotation_deg, s) ==
    [p \in Pixels(shape[1], shape[2]) |->
        MaskValue(EllipseDist(p[1], p[2], center, radii, rotation_deg),
                  NpNormal(NpAdvance(s, p[1] * shape[2] + p[2])),
                  max_depth)]

\* ------------------------------------------------------- road parameters
\* ROAD_WIDTH, ROAD_LENGTH and GRID_RESOLUTION (millimetres) and the range
\* of random.randint for total_potholes.  The scripts set 7 m, 100 m, 0.1 m
\* and (0, 30) or (15, 40); the model runs the same code on short roads.
Config(width, length, res, lo, hi) ==
    [ROAD_WIDTH |-> width, ROAD_LENGTH |-> length, GRID_RESOLUTION |-> res,
     count_lo |-> lo, count_hi |-> hi]
RoadConfigs == {Config(1200, 800, 100, 0, 30), Config(1100, 900, 100, 0, 30)}

\* Severity tiers of the if / elif / else (mainproject.py lines 66-74):
\* roll thresholds in hundredths, depths in 1/1000 cm, radii in 1/100 pixel.
LARGE_ROLL == 1
MEDIUM_ROLL == 40
Tier(severity_roll) ==
    IF severity_roll < LARGE_ROLL
    THEN [depth |-> <<5100, 7500>>, radius |-> <<500, 1000>>]
    ELSE IF severity_roll < MEDIUM_ROLL
    THEN [depth |-> <<2500, 5000>>, radius |-> <<300, 500>>]
    ELSE [depth |-> <<500, 2500>>, radius |-> <<100, 300>>]

\* Interior margins of the centre draws (lines 62-63).
ROW_MARGIN == 3
COL_MARGIN == 5

\* np.zeros((rows, cols)) and an array not yet created.
Zeros(rows, cols) ==
    [shape |-> <<rows, cols>>, data |-> [p \in Pixels(rows, cols) |-> 0]]
NoMatrix == [shape |-> <<-1, -1>>, data |-> <<>>]
NoPatch ==
    [r_min |-> 0, r_max |-> 0, c_min |-> 0, c_max |-> 0, max_depth |-> 0,
     mask |-> <<>>]

\* One pothole's draws (lines 62-77), the generator at state s before them.
DrawFeature(s, rows, cols) ==
    LET r_center == NpRandint(s, ROW_MARGIN, rows - ROW_MARGIN)
        c_center == NpRandint(NpAdvance(s, 1), COL_MARGIN, cols - COL_MARGIN)
        tier == Tier(NpRand(NpAdvance(s, 2)))
        max_depth == NpUniform(NpAdvance(s, 3), tier.depth[1], tier.depth[2])
        r_radius == NpUniform(NpAdvance(s, 4), tier.radius[1], tier.radius[2])
        c_radius == NpUniform(NpAdvance(s, 5), (r_radius * 8) \div 10,
                              (r_radius * 12) \div 10)
        rotation == NpUniform(NpAdvance(s, 6), 0, 180)
    IN  [r_center |-> r_center, c_center |-> c_center, max_depth |-> max_depth,
         r_radius |-> r_radius, c_radius |-> c_radius, rotation |-> rotation]
FeatureDraws == 7

\* The bounding box without its max(0, ...) and min(size, ...).
BoundingBoxUnclipped(f, rows, cols) ==
    [r_min |-> PyInt(f.r_center * RadUnit - f.r_radius * 2, RadUnit),
     r_max |-> PyInt(f.r_center * RadUnit + f.r_radius * 2, RadUnit),
     c_min |-> PyInt(f.c_center * RadUnit - f.c_radius * 2, RadUnit),
     c_max |-> PyInt(f.c_center * RadUnit + f.c_radius * 2, RadUnit)]
\* Local matrix boundaries (lines 80-81).
BoundingBox(f, rows, cols) ==
    [r_min |-> Max(0, PyInt(f.r_center * RadUnit - f.r_radius * 2, RadUnit)),
     r_max |-> Min(rows, PyInt(f.r_center * RadUnit + f.r_radius * 2, RadUnit)),
     c_min |-> Max(0, PyInt(f.c_center * RadUnit - f.c_radius * 2, RadUnit)),
     c_max |-> Min(cols, PyInt(f.c_center * RadUnit + f.c_radius * 2, RadUnit))]

\* The mask of feature f (lines 83-86), the generator at state s.
Patch(f, rows, cols, s) ==
    LET b == BoundingBox(f, rows, cols)
        local_shape == <<b.r_max - b.r_min, b.c_max - b.c_min>>
        local_center == <<f.r_center - b.r_min, f.c_center - b.c_min>>
    IN  [r_min |-> b.r_min, r_max |-> b.r_max, c_min |-> b.c_min,
         c_max |-> b.c_max, max_depth |-> f.max_depth,
         mask |-> create_pothole_mask_rough(local_shape, local_center,
                     <<f.r_radius, f.c_radius>>, f.max_depth, f.rotation, s)]
PatchDraws(pt) == (pt.r_max - pt.r_min) * (pt.c_max - pt.c_min)

InBox(p, pt) ==
    /\ pt.r_min <= p[1] /\ p[1] < pt.r_max
    /\ pt.c_min <= p[2] /\ p[2] < pt.c_max
Local(p, pt) == <<p[1] - pt.r_min, p[2] - pt.c_min>>

\* The merge written as a sum of depths.
MergeAdd(road, pt) ==
    [road EXCEPT !.data =
        [p \in DOMAIN road.data |->
            IF InBox(p, pt) THEN road.data[p] + pt.mask[Local(p, pt)]
            ELSE road.data[p]]]
\* The merge written as a plain assignment of the mask.
MergeOverwrite(road, pt) ==
    [road EXCEPT !.data =
        [p \in DOMAIN road.data |->
            IF InBox(p, pt) THEN pt.mask[Local(p, pt)] ELSE road.data[p]]]
\* The merge keeping the depth a pixel already has and taking the mask's
\* where the pixel is still at zero.
MergeKeepFirst(road, pt) ==
    [road EXCEPT !.data =
        [p \in DOMAIN road.data |->
            IF InBox(p, pt) /\ road.data[p] = 0 THEN pt.mask[Local(p, pt)]
            ELSE road.data[p]]]
\* road_matrix[r_min:r_max, c_min:c_max] = np.maximum(that slice, mask)
\* (line 88).
Merge(road, pt) ==
    [road EXCEPT !.data =
        [p \in DOMAIN road.data |->
            IF InBox(p, pt) THEN Max(road.data[p], pt.mask[Local(p, pt)])
            ELSE road.data[p]]]

\* ------------------------------------------------------------------ state
VARIABLES
    cfg,             \* the road parameters of the script
    pc,              \* pc[r]: where run r is in the script
    err,             \* err[r]: the exception that ended run r, or ""
    road_matrix,     \* road_matrix[r]
    total_potholes,  \* total_potholes[r]
    seed,            \* seed[r]: the argument of np.random.seed
    rng,             \* rng[r]: the state of np.random
    i,               \* i[r]: the loop index
    patch,           \* patch[r]: the bounding box and mask of the last pothole
    features,        \* the damage features handed to the compositing loop
    order,           \* order[r]: the order in which run r takes them
    arg,             \* the arguments of a function called on its own
    ret,             \* what that call returned
    patches,         \* the fixed patches handed to the workers
    mode,            \* how the workers reduce them: "shared" or "partition"
    grid             \* the grid the workers' merges are reduced into

vars == <<cfg, pc, err, road_matrix, total_potholes, seed, rng, i, patch,
          features, order, arg, ret, patches, mode, grid>>
workers == <<patches, mode, grid>>
others == <<features, order, arg, ret, workers>>

MATRIX_ROWS == PyInt(cfg.ROAD_LENGTH, cfg.GRID_RESOLUTION)
MATRIX_COLS == PyInt(cfg.ROAD_WIDTH, cfg.GRID_RESOLUTION)

Raise(r, name) ==
    /\ pc' = [pc EXCEPT ![r] = "error"]
    /\ err' = [err EXCEPT ![r] = name]

\* Lines 38-53: the matrix size and np.zeros.
Setup(r) ==
    /\ pc[r] = "setup"
    /\ IF cfg.GRID_RESOLUTION = 0
       THEN Raise(r, "ZeroDivisionError") /\ UNCHANGED road_matrix
       ELSE IF MATRIX_ROWS < 0 \/ MATRIX_COLS < 0
       THEN Raise(r, "ValueError") /\ UNCHANGED road_matrix
       ELSE /\ road_matrix' =
                 [road_matrix EXCEPT ![r] = Zeros(MATRIX_ROWS, MATRIX_COLS)]
            /\ pc' = [pc EXCEPT ![r] = "count"]
            /\ err' = err
    /\ UNCHANGED <<cfg, total_potholes, seed, rng, i, patch, others>>

\* Line 58: total_potholes = random.randint(lo, hi), both ends included,
\* from the random module's generator, which nothing seeds.
DrawCount(r) ==
    /\ pc[r] = "count"
    /\ IF cfg.count_lo > cfg.count_hi
       THEN Raise(r, "ValueError") /\ UNCHANGED total_potholes
       ELSE /\ \E n \in cfg.count_lo .. Min(cfg.count_hi, MaxPotholes) :
                 total_potholes' = [total_potholes EXCEPT ![r] = n]
            /\ pc' = [pc EXCEPT ![r] = "seed"]
            /\ err' = err
    /\ UNCHANGED <<cfg, road_matrix, seed, rng, i, patch, others>>

\* Line 59: np.random.seed(random.randint(1, 100000)).
SeedNumpy(r) ==
    /\ pc[r] = "seed"
    /\ \E x \in 1 .. MaxSeed :
         /\ seed' = [seed EXCEPT ![r] = x]
         /\ rng' = [rng EXCEPT ![r] = NpSeedState(x)]
    /\ pc' = [pc EXCEPT ![r] = "loop"]
    /\ UNCHANGED <<cfg, err, road_matrix, total_potholes, i, patch, others>>

\* Lines 60-88: one iteration of the loop.
Pothole(r) ==
    /\ pc[r] = "loop"
    /\ i[r] < total_potholes[r]
    /\ LET rows == road_matrix[r].shape[1]
           cols == road_matrix[r].shape[2]
       IN  IF ROW_MARGIN >= rows - ROW_MARGIN \/ COL_MARGIN >= cols - COL_MARGIN
           THEN /\ Raise(r, "ValueError")
                /\ UNCHANGED <<road_matrix, rng, i, patch>>
           ELSE LET f == DrawFeature(rng[r], rows, cols)
                    pt == Patch(f, rows, cols, NpAdvance(rng[r], FeatureDraws))
                IN  /\ road_matrix' =
                         [road_matrix EXCEPT ![r] = Merge(road_matrix[r], pt)]
                    /\ rng' = [rng EXCEPT ![r] =
                         NpAdvance(rng[r], FeatureDraws + PatchDraws(pt))]
                    /\ patch' = [patch EXCEPT ![r] = pt]
                    /\ i' = [i EXCEPT ![r] = i[r] + 1]
                    /\ UNCHANGED <<pc, err>>
    /\ UNCHANGED <<cfg, total_potholes, seed, others>>

\* Lines 89-99: the loop is over and the matrix is handed to h5py.
Save(r) ==
    /\ pc[r] = "loop"
    /\ i[r] = total_potholes[r]
    /\ pc' = [pc EXCEPT ![r] = "done"]
    /\ UNCHANGED <<cfg, err, road_matrix, total_potholes, seed, rng, i, patch, others>>

InitRuns ==
    /\ pc = [r \in Runs |-> "setup"]
    /\ err = [r \in Runs |-> ""]
    /\ road_matrix = [r \in Runs |-> NoMatrix]
    /\ total_potholes = [r \in Runs |-> 0]
    /\ seed = [r \in Runs |-> 0]
    /\ rng = [r \in Runs |-> 0]
    /\ i = [r \in Runs |-> 0]
    /\ patch = [r \in Runs |-> NoPatch]

NotReturned == [done |-> FALSE, error |-> "", value |-> <<>>]
Returned(v) == [done |-> TRUE, error |-> "", value |-> v]

NoWorkers ==
    /\ patches = <<>>
    /\ mode = ""
    /\ grid = NoMatrix

NoCall ==
    /\ features = <<>>
    /\ order = [r \in Runs |-> <<>>]
    /\ arg = <<>>
    /\ ret = NotReturned
    /\ NoWorkers

Init ==
    /\ cfg \in RoadConfigs
    /\ InitRuns
    /\ NoCall

Next ==
    \E r \in Runs :
        \/ Setup(r)
        \/ DrawCount(r)
        \/ SeedNumpy(r)
        \/ Pothole(r)
        \/ Save(r)

Spec == Init /\ [][Next]_vars

\* ------------------------------------- the scripts on other road parameters
\* Road parameters with a zero or negative dimension or resolution, or an
\* empty range for total_potholes, beside the ones above.
OtherConfigs ==
    {Config(0, 800, 100, 0, 30), Config(1200, -800, 100, 0, 30),
     Config(1200, 800, 0, 0, 30), Config(1200, 800, -100, 0, 30),
     Config(1200, 800, 100, 5, 2), Config(400, 800, 100, 0, 30)}

ConfigInit ==
    /\ cfg \in RoadConfigs \cup OtherConfigs
    /\ InitRuns
    /\ NoCall

ConfigSpec == ConfigInit /\ [][Next]_vars

\* -------------------------------- compositing given features in any order
\* The features are ones the synthesis loop can draw; each run takes them
\* in its own order, calls create_pothole_mask_rough (which draws its noise
\* from np.random) and merges the mask (lines 80-88).
MaxFeatureState == 4
NumFeatures == 2
FeaturePool(rows, cols) ==
    {DrawFeature(s, rows, cols) : s \in 1 .. MaxFeatureState}
Permutations(n) ==
    {f \in [1 .. n -> 1 .. n] : \A a, b \in 1 .. n : f[a] = f[b] => a = b}

Composite(r) ==
    /\ pc[r] = "loop"
    /\ i[r] < Len(features)
    /\ LET rows == road_matrix[r].shape[1]
           cols == road_matrix[r].shape[2]
           f == features[order[r][i[r] + 1]]
           pt == Patch(f, rows, cols, rng[r])
       IN  /\ road_matrix' = [road_matrix EXCEPT ![r] = Merge(road_matrix[r], pt)]
           /\ rng' = [rng EXCEPT ![r] = NpAdvance(rng[r], PatchDraws(pt))]
           /\ patch' = [patch EXCEPT ![r] = pt]
           /\ i' = [i EXCEPT ![r] = i[r] + 1]
    /\ UNCHANGED <<cfg, pc, err, total_potholes, seed, features, order, arg, ret,
                   workers>>

PermInit ==
    /\ cfg \in RoadConfigs
    /\ features \in [1 .. NumFeatures -> FeaturePool(MATRIX_ROWS, MATRIX_COLS)]
    /\ order \in [Runs -> Permutations(NumFeatures)]
    /\ order[1] = [k \in 1 .. NumFeatures |-> k]
    /\ \E x \in 1 .. MaxSeed :
         /\ seed = [r \in Runs |-> x]
         /\ rng = [r \in Runs |-> NpSeedState(x)]
    /\ pc = [r \in Runs |-> "loop"]
    /\ err = [r \in Runs |-> ""]
    /\ road_matrix = [r \in Runs |-> Zeros(MATRIX_ROWS, MATRIX_COLS)]
    /\ total_potholes = [r \in Runs |-> NumFeatures]
    /\ i = [r \in Runs |-> 0]
    /\ patch = [r \in Runs |-> NoPatch]
    /\ arg = <<>>
    /\ ret = NotReturned
    /\ NoWorkers

PermNext == \E r \in Runs : Composite(r) \/ Save(r)

PermSpec == PermInit /\ [][PermNext]_vars

\* ------------------------------------------ workers merging fixed patches
\* The patches the loop synthesizes (lines 62-86) at the generator states
\* 1 .. MaxFeatureState; a fixed set of NumPatches of them goes to the
\* workers, which draw nothing.
NumPatches == 3
PatchAt(s, rows, cols) ==
    Patch(DrawFeature(s, rows, cols), rows, cols, NpAdvance(s, FeatureDraws))

\* The loop of lines 60-88 over the first k of the patches pts, one after
\* the other.
RECURSIVE SequentialMerge(_, _, _)
SequentialMerge(road, pts, k) ==
    IF k = 0 THEN road ELSE Merge(SequentialMerge(road, pts, k - 1), pts[k])

\* The lists of patch indexes a worker can be handed: no index twice.
WorkLists(n) ==
    UNION {{q \in [1 .. k -> 1 .. n] : \A a, b \in 1 .. k : q[a] = q[b] => a = b} :
             k \in 0 .. n}

\* Worker r merges its next patch into the shared grid, as one atomic step.
MergeShared(r) ==
    /\ mode = "shared"
    /\ i[r] < Len(order[r])
    /\ LET pt == patches[order[r][i[r] + 1]]
       IN  /\ grid' = Merge(grid, pt)
           /\ patch' = [patch EXCEPT ![r] = pt]
    /\ i' = [i EXCEPT ![r] = i[r] + 1]
    /\ UNCHANGED <<cfg, pc, err, road_matrix, total_potholes, seed, rng,
                   features, order, arg, ret, patches, mode>>

\* Worker r merges its next patch into the grid of its own partition.
MergePartition(r) ==
    /\ mode = "partition"
    /\ i[r] < Len(order[r])
    /\ LET pt == patches[order[r][i[r] + 1]]
       IN  /\ road_matrix' = [road_matrix EXCEPT ![r] = Merge(road_matrix[r], pt)]
           /\ patch' = [patch EXCEPT ![r] = pt]
    /\ i' = [i EXCEPT ![r] = i[r] + 1]
    /\ UNCHANGED <<cfg, pc, err, total_potholes, seed, rng, features, order,
                   arg, ret, workers>>

\* The final pass: the pointwise maximum of the partitions' grids, once
\* every worker has merged all its patches.
MaxPass ==
    /\ mode = "partition"
    /\ grid = NoMatrix
    /\ \A r \in Runs : i[r] = Len(order[r])
    /\ grid' =
         [shape |-> <<MATRIX_ROWS, MATRIX_COLS>>,
          data |-> [p \in Pixels(MATRIX_ROWS, MATRIX_COLS) |->
                      CHOOSE v \in {road_matrix[r].data[p] : r \in Runs} :
                          \A r \in Runs : road_matrix[r].data[p] <= v]]
    /\ UNCHANGED <<cfg, pc, err, road_matrix, total_potholes, seed, rng, i,
                   patch, features, order, arg, ret, patches, mode>>

ParInit ==
    /\ cfg \in RoadConfigs
    /\ \E ss \in [1 .. NumPatches -> 1 .. MaxFeatureState] :
         /\ \A a, b \in 1 .. NumPatches : a < b => ss[a] < ss[b]
         /\ patches = [k \in 1 .. NumPatches |->
                         PatchAt(ss[k], MATRIX_ROWS, MATRIX_COLS)]
    /\ order \in [Runs -> WorkLists(NumPatches)]
    /\ \A k \in 1 .. NumPatches :
         \E r \in Runs : \E a \in 1 .. Len(order[r]) :
            /\ order[r][a] = k
            /\ \A q \in Runs \ {r} : \A b \in 1 .. Len(order[q]) : order[q][b] # k
    /\ mode \in {"shared", "partition"}
    /\ grid = IF mode = "shared" THEN Zeros(MATRIX_ROWS, MATRIX_COLS) ELSE NoMatrix
    /\ road_matrix = [r \in Runs |->
         IF mode = "shared" THEN NoMatrix ELSE Zeros(MATRIX_ROWS, MATRIX_COLS)]
    /\ pc = [r \in Runs |-> "merge"]
    /\ err = [r \in Runs |-> ""]
    /\ total_potholes = [r \in Runs |-> 0]
    /\ seed = [r \in Runs |-> 0]
    /\ rng = [r \in Runs |-> 0]
    /\ i = [r \in Runs |-> 0]
    /\ patch = [r \in Runs |-> NoPatch]
    /\ features = <<>>
    /\ arg = <<>>
    /\ ret = NotReturned

ParNext ==
    \/ \E r \in Runs : MergeShared(r) \/ MergePartition(r)
    \/ MaxPass

ParSpec == ParInit /\ [][ParNext]_vars

\* ------------------------------ create_pothole_mask_rough called on its own
MaxNoiseState == 2
MaskArgs ==
    [shape : {<<0, 0>>, <<0, 3>>, <<2, 0>>, <<2, 3>>, <<3, 3>>},
     center : {<<0, 0>>, <<1, 1>>},
     radii : {<<100, 110>>, <<150, 120>>},
     max_depth : {-1000, 0, 500, 2500},
     rotation_deg : {0, 45, 90},
     s : 0 .. MaxNoiseState]

CallMask ==
    /\ ~ret.done
    /\ ret' = Returned(create_pothole_mask_rough(arg.shape, arg.center,
                 arg.radii, arg.max_depth, arg.rotation_deg, arg.s))
    /\ UNCHANGED <<cfg, pc, err, road_matrix, total_potholes, seed, rng, i,
                   patch, features, order, arg, workers>>

Idle ==
    /\ cfg \in RoadConfigs
    /\ pc = [r \in Runs |-> "done"]
    /\ err = [r \in Runs |-> ""]
    /\ road_matrix = [r \in Runs |-> NoMatrix]
    /\ total_potholes = [r \in Runs |-> 0]
    /\ seed = [r \in Runs |-> 0]
    /\ rng = [r \in Runs |-> 0]
    /\ i = [r \in Runs |-> 0]
    /\ patch = [r \in Runs |-> NoPatch]
    /\ features = <<>>
    /\ order = [r \in Runs |-> <<>>]
    /\ NoWorkers

MaskInit ==
    /\ Idle
    /\ arg \in MaskArgs
    /\ ret = NotReturned

MaskSpec == MaskInit /\ [][CallMask]_vars

\* The same call with radii that are zero or negative.
GeometryArgs ==
    [shape : {<<2, 3>>, <<3, 3>>},
     center : {<<0, 0>>, <<1, 1>>},
     radii : {<<0, 110>>, <<100, 0>>, <<0, 0>>, <<-100, 110>>, <<100, -150>>,
              <<100, 110>>},
     max_depth : {500, 2500},
     rotation_deg : {0, 45, 90},
     s : 0 .. MaxNoiseState]

GeometryInit ==
    /\ Idle
    /\ arg \in GeometryArgs
    /\ ret = NotReturned

GeometrySpec == GeometryInit /\ [][CallMask]_vars

\* ---------------------------------------------- generate_road_hazard_rating
\* Depths in 1/1000000 cm.  MAX_TOLERABLE_DENSITY = 0.007 is kept as 7 per
\* 1000, and the 0.75 of the maintenance check as 75 per 100.
DAMAGE_DEPTH == 500000
MAX_TOLERABLE_DEPTH_CM == 10000000
TWO_CM == 2000000
MAX_TOLERABLE_DENSITY_PER_1000 == 7
MAX_MEAN_ROAD_DEPTH_CM == 500000
MAINTENANCE_PER_100 == 75

RECURSIVE SumOver(_, _)
SumOver(S, f) ==
    IF S = {} THEN 0
    ELSE LET x == CHOOSE y \in S : TRUE IN f[x] + SumOver(S \ {x}, f)
MaxOver(S, f) == CHOOSE v \in {f[p] : p \in S} : \A q \in S : f[q] <= v

\* Python's format of n / d with one decimal, in tenths (round half to even).
Format1(n, d) ==
    LET q == (10 * n) \div d
        rem == (10 * n) % d
    IN  IF 2 * rem > d \/ (2 * rem = d /\ q % 2 = 1) THEN q + 1 ELSE q

\* pothole_mask = road_matrix > 0.5 (line 139), as the set of its pixels.
PotholeMaskAny(road) == {p \in DOMAIN road.data : road.data[p] > 0}
PotholeMask(road) == {p \in DOMAIN road.data : road.data[p] > DAMAGE_DEPTH}

\* damage_density >= MAX_TOLERABLE_DENSITY (lines 169, 177) and
\* damage_density >= MAX_TOLERABLE_DENSITY * 0.75 (line 186), with
\* damage_density = total_damage_pixels / road_matrix.size.
DensityCritical(count, size) ==
    count * 1000 >= MAX_TOLERABLE_DENSITY_PER_1000 * size
DensityRising(count, size) ==
    count * 100000 >= MAX_TOLERABLE_DENSITY_PER_1000 * MAINTENANCE_PER_100 * size

\* The cascade with its second and third checks exchanged.
RatingDensityFirst(max_depth, sum, count, size) ==
    IF max_depth >= MAX_TOLERABLE_DEPTH_CM /\ DensityCritical(count, size)
    THEN <<"HAZARDOUS",
           <<"Critical Severity & Frequency: Max depth AND damage density are both critical.",
             Format1(max_depth, 1000000), Format1(count * 10000, size)>>>>
    ELSE IF DensityCritical(count, size)
    THEN <<"CAUTIOUS",
           <<"Critical Frequency: Damage density is too high.",
             Format1(count * 10000, size)>>>>
    ELSE IF max_depth >= MAX_TOLERABLE_DEPTH_CM - TWO_CM
    THEN <<"DANGEROUS",
           <<"Extreme Severity: Single pothole max depth is a severe hazard.",
             Format1(max_depth, 1000000)>>>>
    ELSE IF sum > MAX_MEAN_ROAD_DEPTH_CM * count
    THEN <<"ROUGHNESS WARNING",
           <<"Roughness Warning: Average damage depth is high, repair soon.",
             Format1(sum, count * 1000000)>>>>
    ELSE IF DensityRising(count, size)
    THEN <<"MAINTENANCE WARNING",
           <<"Maintenance Warning: Damage frequency is rising, approaching hazardous level.">>>>
    ELSE <<"Decent (Minor Damage)",
           <<"Minor surface defects present but safe for regular use.">>>>

\* The cascade with its roughness check comparing the mean damaged depth
\* with the depth limit instead of MAX_MEAN_ROAD_DEPTH_CM.
RatingMeanAtDepthLimit(max_depth, sum, count, size) ==
    IF max_depth >= MAX_TOLERABLE_DEPTH_CM /\ DensityCritical(count, size)
    THEN <<"HAZARDOUS",
           <<"Critical Severity & Frequency: Max depth AND damage density are both critical.",
             Format1(max_depth, 1000000), Format1(count * 10000, size)>>>>
    ELSE IF max_depth >= MAX_TOLERABLE_DEPTH_CM - TWO_CM
    THEN <<"DANGEROUS",
           <<"Extreme Severity: Single pothole max depth is a severe hazard.",
             Format1(max_depth, 1000000)>>>>
    ELSE IF DensityCritical(count, size)
    THEN <<"CAUTIOUS",
           <<"Critical Frequency: Damage density is too high.",
             Format1(count * 10000, size)>>>>
    ELSE IF sum > MAX_TOLERABLE_DEPTH_CM * count
    THEN <<"ROUGHNESS WARNING",
           <<"Roughness Warning: Average damage depth is high, repair soon.",
             Format1(sum, count * 1000000)>>>>
    ELSE IF DensityRising(count, size)
    THEN <<"MAINTENANCE WARNING",
           <<"Maintenance Warning: Damage frequency is rising, approaching hazardous level.">>>>
    ELSE <<"Decent (Minor Damage)",
           <<"Minor surface defects present but safe for regular use.">>>>

\* The if / elif cascade (lines 169-192): the rating and its reason, the
\* reason as its text and the numbers formatted into it.  sum / count is
\* mean_pothole_depth.
Rating(max_depth, sum, count, size) ==
    IF max_depth >= MAX_TOLERABLE_DEPTH_CM /\ DensityCritical(count, size)
    THEN <<"HAZARDOUS",
           <<"Critical Severity & Frequency: Max depth AND damage density are both critical.",
             Format1(max_depth, 1000000), Format1(count * 10000, size)>>>>
    ELSE IF max_depth >= MAX_TOLERABLE_DEPTH_CM - TWO_CM
    THEN <<"DANGEROUS",
           <<"Extreme Severity: Single pothole max depth is a severe hazard.",
             Format1(max_depth, 1000000)>>>>
    ELSE IF DensityCritical(count, size)
    THEN <<"CAUTIOUS",
           <<"Critical Frequency: Damage density is too high.",
             Format1(count * 10000, size)>>>>
    ELSE IF sum > MAX_MEAN_ROAD_DEPTH_CM * count
    THEN <<"ROUGHNESS WARNING",
           <<"Roughness Warning: Average damage depth is high, repair soon.",
             Format1(sum, count * 1000000)>>>>
    ELSE IF DensityRising(count, size)
    THEN <<"MAINTENANCE WARNING",
           <<"Maintenance Warning: Damage frequency is rising, approaching hazardous level.">>>>
    ELSE <<"Decent (Minor Damage)",
           <<"Minor surface defects present but safe for regular use.">>>>

\* generate_road_hazard_rating(road_matrix) (lines 137-193): the tuple
\* (rating, reason, max_depth, mean_pothole_depth, total_damage_pixels).
generate_road_hazard_rating(road) ==
    LET pothole_mask == PotholeMask(road)
        total_damage_pixels == Cardinality(pothole_mask)
    IN  IF total_damage_pixels = 0
        THEN <<"Good", <<"Road is perfectly smooth.">>, 0, 0, 0>>
        ELSE LET max_depth == MaxOver(pothole_mask, road.data)
                 sum == SumOver(pothole_mask, road.data)
                 size == road.shape[1] * road.shape[2]
                 rated == Rating(max_depth, sum, total_damage_pixels, size)
             IN  <<rated[1], rated[2], max_depth, sum \div total_damage_pixels,
                   total_damage_pixels>>

\* The grids the rating is called on: all zero but for the first MaxSpots
\* pixels of the first row, which take sample depths.
MaxSpots == 3
RatingShapes == {<<0, 5>>, <<2, 3>>, <<10, 15>>, <<10, 20>>}
DepthSamples == {0, 300000, 500000, 600000, 8000000, 10000000}
SpottedGrid(shape, spots) ==
    [shape |-> shape,
     data |-> [p \in Pixels(shape[1], shape[2]) |->
                 IF p[1] = 0 /\ p[2] < Len(spots) THEN spots[p[2] + 1] ELSE 0]]

CallRating ==
    /\ ~ret.done
    /\ ret' = Returned(generate_road_hazard_rating(arg))
    /\ UNCHANGED <<cfg, pc, err, road_matrix, total_potholes, seed, rng, i,
                   patch, features, order, arg, workers>>

RatingInit ==
    /\ Idle
    /\ \E shape \in RatingShapes, spots \in [1 .. MaxSpots -> DepthSamples] :
         arg = SpottedGrid(shape, spots)
    /\ ret = NotReturned

RatingSpec == RatingInit /\ [][CallRating]_vars

\* ------------------------------------------------------------------ claims
Finished(r) == pc[r] = "done"
Merged(r) == i[r] > 0
Depths(r) == road_matrix[r].data

\* C2: two runs with the same seed and the same road parameters end with
\* the same grid.
C2_SameSeedSameGrid ==
    (Finished(1) /\ Finished(2) /\ seed[1] = seed[2])
        => road_matrix[1] = road_matrix[2]

\* C5: merging the patch that was just merged a second time, at the same
\* offset, leaves the grid as the first merge left it.
C5_MergeIdempotent ==
    \A r \in Runs : Merged(r) => Merge(road_matrix[r], patch[r]) = road_matrix[r]

\* C5 witness: a second pothole was merged over an earlier, deeper one, and
\* is itself deeper than the ground somewhere.
C5_Witness ==
    \E r \in Runs :
        /\ i[r] >= 2
        /\ \E p \in DOMAIN Depths(r) :
              /\ InBox(p, patch[r])
              /\ 0 < patch[r].mask[Local(p, patch[r])]
              /\ patch[r].mask[Local(p, patch[r])] < Depths(r)[p]
        /\ \E p \in DOMAIN Depths(r) :
              /\ InBox(p, patch[r])
              /\ 0 < patch[r].mask[Local(p, patch[r])]
              /\ patch[r].mask[Local(p, patch[r])] = Depths(r)[p]

\* C6: every value of a generated mask lies in [0, max_depth], and the mask
\* has the shape that was asked for.
C6_MaskRange ==
    \A r \in Runs :
        Merged(r) =>
            LET pt == patch[r] IN
            /\ DOMAIN pt.mask = Pixels(pt.r_max - pt.r_min, pt.c_max - pt.c_min)
            /\ \A p \in DOMAIN pt.mask :
                  0 <= pt.mask[p] /\ pt.mask[p] <= pt.max_depth * MaskUnit

\* C6 witness: a mask that reaches max_depth, has a pixel in between and a
\* pixel at zero.
C6_Witness ==
    \E r \in Runs :
        /\ Merged(r)
        /\ \E p, q, z \in DOMAIN patch[r].mask :
              /\ patch[r].mask[p] = patch[r].max_depth * MaskUnit
              /\ 0 < patch[r].mask[q]
              /\ patch[r].mask[q] < patch[r].max_depth * MaskUnit
              /\ patch[r].mask[z] = 0

\* C7: the clipped bounding box of every generated feature lies in the grid:
\* 0 <= r_min <= r_max <= rows and 0 <= c_min <= c_max <= cols.
C7_BoundsSafe ==
    \A r \in Runs :
        Merged(r) =>
            LET pt == patch[r] IN
            /\ 0 <= pt.r_min /\ pt.r_min <= pt.r_max
            /\ pt.r_max <= road_matrix[r].shape[1]
            /\ 0 <= pt.c_min /\ pt.c_min <= pt.c_max
            /\ pt.c_max <= road_matrix[r].shape[2]

\* C7 witness: a large-tier feature whose box was cut at all four edges.
C7_Witness ==
    \E r \in Runs :
        /\ Merged(r)
        /\ patch[r].max_depth >= 5100
        /\ patch[r].r_min = 0 /\ patch[r].r_max = road_matrix[r].shape[1]
        /\ patch[r].c_min = 0 /\ patch[r].c_max = road_matrix[r].shape[2]

\* C8: the grid is created all zero, and no step lowers a pixel or makes it
\* negative.
C8_GridStep(r) ==
    /\ (road_matrix[r] = NoMatrix /\ road_matrix'[r] # NoMatrix)
          => \A p \in DOMAIN road_matrix'[r].data : road_matrix'[r].data[p] = 0
    /\ road_matrix[r] # NoMatrix
          => /\ road_matrix'[r].shape = road_matrix[r].shape
             /\ \A p \in DOMAIN Depths(r) :
                   /\ road_matrix'[r].data[p] >= Depths(r)[p]
                   /\ road_matrix'[r].data[p] >= 0
C8_GridMonotone == [][\A r \in Runs : C8_GridStep(r)]_vars

\* C8 witness: after two merges, a pixel the last mask leaves at zero still
\* holds the depth of the earlier pothole.
C8_Witness ==
    \E r \in Runs :
        /\ i[r] >= 2
        /\ \E p \in DOMAIN Depths(r) :
              /\ InBox(p, patch[r])
              /\ patch[r].mask[Local(p, patch[r])] = 0
              /\ Depths(r)[p] > 0

\* C1: the same features, synthesized and composited from the same generator
\* state in two different orders, end in the same grid.
C1_OrderIndependent ==
    (/\ Finished(1) /\ Finished(2)
     /\ seed[1] = seed[2]
     /\ order[1] \in Permutations(Len(features))
     /\ order[2] \in Permutations(Len(features)))
        => road_matrix[1] = road_matrix[2]

\* C9: with max_depth <= 0 or a shape of zero area the mask generator
\* returns an all-zero array of that shape, without an error.
C9_DegenerateZero ==
    (/\ ret.done
     /\ \/ arg.max_depth <= 0
        \/ arg.shape[1] * arg.shape[2] = 0)
        => /\ ret.error = ""
           /\ DOMAIN ret.value = Pixels(arg.shape[1], arg.shape[2])
           /\ \A p \in DOMAIN ret.value : ret.value[p] = 0

\* C10: road parameters that are not positive, or an empty range for the
\* feature count, end the run in a ConfigurationError before a grid exists.
BadConfig ==
    \/ cfg.ROAD_WIDTH <= 0
    \/ cfg.ROAD_LENGTH <= 0
    \/ cfg.GRID_RESOLUTION <= 0
    \/ cfg.count_lo > cfg.count_hi
C10_FailFast ==
    BadConfig =>
        \A r \in Runs :
            /\ road_matrix[r] = NoMatrix
            /\ pc[r] \in {"setup", "error"}
            /\ pc[r] = "error" => err[r] = "ConfigurationError"

\* C3: on a grid with a damaged pixel the rating is that of the first rule
\* that matches, in the order Hazardous, Dangerous, Cautious,
\* RoughnessWarning, MaintenanceWarning, MinorDamage.
Damaged == {p \in DOMAIN arg.data : arg.data[p] > DAMAGE_DEPTH}
Rules ==
    LET count == Cardinality(Damaged)
        size == arg.shape[1] * arg.shape[2]
        deepest == MaxOver(Damaged, arg.data)
        D_max == MAX_TOLERABLE_DEPTH_CM
    IN  <<deepest >= D_max /\ 1000 * count >= 7 * size,
          deepest >= D_max - 2000000,
          1000 * count >= 7 * size,
          SumOver(Damaged, arg.data) > 500000 * count,
          4000 * count >= 21 * size,
          TRUE>>
RuleRatings ==
    <<"HAZARDOUS", "DANGEROUS", "CAUTIOUS", "ROUGHNESS WARNING",
      "MAINTENANCE WARNING", "Decent (Minor Damage)">>
C4_NoDamageGood ==
    (ret.done /\ \A p \in DOMAIN arg.data : arg.data[p] <= DAMAGE_DEPTH)
        => /\ ret.error = ""
           /\ ret.value = <<"Good", <<"Road is perfectly smooth.">>, 0, 0, 0>>

\* C4 witness: a grid with shallow dents, one exactly at the threshold, and
\* none above it was rated.
C4_Witness ==
    /\ ret.done
    /\ \A p \in DOMAIN arg.data : arg.data[p] <= DAMAGE_DEPTH
    /\ \E p, q \in DOMAIN arg.data :
          arg.data[p] = DAMAGE_DEPTH /\ 0 < arg.data[q] /\ arg.data[q] < DAMAGE_DEPTH
    /\ ret.value[1] = "Good"

\* C11: called with a row radius or a column radius <= 0, the mask generator
\* ends in a GeometryError and returns no array, hence no nan or inf depth.
C11_GeometryError ==
    (ret.done /\ (arg.radii[1] <= 0 \/ arg.radii[2] <= 0))
        => /\ ret.error = "GeometryError"
           /\ DOMAIN ret.value = {}

\* C13: for every grid with at least one damaged pixel the mean damaged
\* depth returned exceeds MAX_MEAN_ROAD_DEPTH_CM, and the rating returned is
\* HAZARDOUS, DANGEROUS, CAUTIOUS or ROUGHNESS WARNING, never MAINTENANCE
\* WARNING or Decent (Minor Damage).
C13_NeverMinor ==
    (ret.done /\ Damaged # {})
        => /\ ret.value[4] > MAX_MEAN_ROAD_DEPTH_CM
           /\ ret.value[1] \in {"HAZARDOUS", "DANGEROUS", "CAUTIOUS",
                                "ROUGHNESS WARNING"}
           /\ ret.value[1] \notin {"MAINTENANCE WARNING",
                                   "Decent (Minor Damage)"}

\* C13 witness: a grid with a single damaged pixel next to a shallow dent,
\* its depth and its density below every other limit, was rated ROUGHNESS
\* WARNING.
C13_Witness ==
    /\ ret.done
    /\ Cardinality(Damaged) = 1
    /\ \E q \in DOMAIN arg.data : 0 < arg.data[q] /\ arg.data[q] < DAMAGE_DEPTH
    /\ ~Rules[1] /\ ~Rules[2] /\ ~Rules[3] /\ ~Rules[5]
    /\ ret.value[1] = "ROUGHNESS WARNING"

\* Every worker has merged all its patches and, with partitions, the final
\* pass has run.
WorkersDone ==
    /\ mode # ""
    /\ \A r \in Runs : i[r] = Len(order[r])
    /\ grid # NoMatrix

\* C12: for a fixed set of patches, once every worker has merged all its
\* patches, whatever the interleaving of the atomic merges into the shared
\* grid, and likewise after the final pointwise-max pass over the
\* partitions' grids, the grid is the one that merging the patches
\* sequentially gives.
C12_ParallelReduction ==
    WorkersDone =>
        grid = SequentialMerge(Zeros(MATRIX_ROWS, MATRIX_COLS), patches,
                               Len(patches))

\* C12 witness: both workers merged patches, and the patch a worker merged
\* last is deeper than the final grid's other contributions at one pixel
\* and shallower than the final grid at another.
C12_Witness ==
    /\ WorkersDone
    /\ \A r \in Runs : i[r] >= 1
    /\ \A r \in Runs :
          /\ \E p \in DOMAIN grid.data :
                /\ InBox(p, patch[r])
                /\ 0 < patch[r].mask[Local(p, patch[r])]
                /\ patch[r].mask[Local(p, patch[r])] < grid.data[p]
          /\ \E p \in DOMAIN grid.data :
                /\ InBox(p, patch[r])
                /\ patch[r].mask[Local(p, patch[r])] = grid.data[p]
                /\ \A k \in 1 .. Len(patches) :
                      (patches[k] # patch[r] /\ InBox(p, patches[k]))
                          => patches[k].mask[Local(p, patches[k])] < grid.data[p]

====
